---- MODULE Spec2Model ----
(***************************************************************************)
(* A model of the arXiv API client (package arxiv): src/arxiv.go and       *)
(* src/search.go.                                                          *)
(*                                                                         *)
(* Go strings are modelled as sequences of one-character strings, so that  *)
(* the string functions the code calls (strings.Index, strings.Fields,     *)
(* strings.Trim, strings.ToLower, strconv.ParseUint, time.Parse, the       *)
(* regular expression spaceRe) are computed character by character.        *)
(*                                                                         *)
(* The encoding/xml decoder is the environment: it hands out, one Token()  *)
(* call at a time, the tokens of some well-formed document (or a syntax    *)
(* error at any point).                                                    *)
(***************************************************************************)
EXTENDS Integers, Sequences, FiniteSets, TLC

VARIABLES
    pc,         \* position of the running call
    q,          \* the *Query argument of Search
    values,     \* url.Values built by Search: a set of <<name, value>>
    idArg,      \* the receiver of Paper.ID()
    idRet,      \* the string Paper.ID() returned
    uintBits,   \* the width of Go's uint on the build target: 32 or 64
    vocab,      \* the vocabulary the response body draws its names and texts from
    stack,      \* xml.Decoder: the elements currently open
    nread,      \* xml.Decoder: start, text and comment tokens handed out
    token,      \* the token the last d.Token() call returned
    target,     \* the field getInnerValue is filling (its ret argument)
    str,        \* the local str of the updated / published cases (kept until the next one)
    out,        \* Search's out slice
    ret,        \* what Search returned: [papers, err]
    commentLog, \* history: per entry, the text of each comment element read
    doc         \* history: the tokens the decoder handed out (kept for SpecRecords)

vars == <<pc, q, values, idArg, idRet, uintBits, vocab, stack, nread,
          token, target, str, out, ret, commentLog, doc>>

-----------------------------------------------------------------------------
(* Bounds of the model.                                                    *)

\* start-element, character-data and comment tokens in one response
MaxTokens == 5
\* nesting depth of open elements in one response
MaxDepth == 3
\* entries of Query.IDList
MaxIDs == 2
\* pieces a URL handed to Paper.ID() is assembled from
MaxPieces == 3
\* whitespace-separated fields of a generated comment
MaxFields == 2
\* characters of a text handed to the whitespace normalization on its own
MaxChars == 4
\* start-element, character-data and comment tokens in one response whose
\* tokens are kept
MaxHistory == 3

-----------------------------------------------------------------------------
(* Strings.                                                                *)

Digits == <<"0", "1", "2", "3", "4", "5", "6", "7", "8", "9">>

IsDigit(c) == \E i \in 1..10 : Digits[i] = c

DigitVal(c) == (CHOOSE i \in 1..10 : Digits[i] = c) - 1

\* strings.Index(s, sub): the index (from 0) of the first sub in s, or -1
Index(s, sub) ==
    LET hits == {i \in 0..(Len(s) - Len(sub)) :
                    SubSeq(s, i + 1, i + Len(sub)) = sub}
    IN  IF hits = {} THEN -1
        ELSE CHOOSE i \in hits : \A j \in hits : i <= j

\* fmt.Sprint of an unsigned integer: its decimal digits
RECURSIVE Sprint(_)
Sprint(n) ==
    IF n < 10 THEN <<Digits[n + 1]>>
    ELSE Sprint(n \div 10) \o <<Digits[(n % 10) + 1]>>

-----------------------------------------------------------------------------
(* src/arxiv.go                                                            *)

AbsMarker == <<"/", "a", "b", "s", "/">>

ArXivPrefix == <<"a", "r", "X", "i", "v", ":">>

\* Paper.ID with strings.LastIndex in place of strings.Index
IDLastMarker(p) ==
    LET hits == {i \in 0..(Len(p.URL) - 5) : SubSeq(p.URL, i + 1, i + 5) = AbsMarker}
    IN  IF hits = {} THEN <<>>
        ELSE LET i  == (CHOOSE h \in hits : \A j \in hits : j <= h) + 5
                 id == SubSeq(p.URL, i + 1, Len(p.URL))
             IN  IF Index(id, <<"/">>) = -1 THEN ArXivPrefix \o id ELSE id

\* func (p *Paper) ID() string
ID(p) ==
    LET i == Index(p.URL, AbsMarker)
    IN  IF i < 0 THEN <<>>
        ELSE LET id == SubSeq(p.URL, i + Len(AbsMarker) + 1, Len(p.URL))
             IN  IF Index(id, <<"/">>) = -1 THEN ArXivPrefix \o id ELSE id

\* type Author struct: the zero value
ZeroAuthor == [Name |-> <<>>, Affiliation |-> <<>>]

\* time.Time{}: January 1, year 1, 00:00:00 UTC, as <<year, month, day, hour, minute, second>>
ZeroTime == <<1, 1, 1, 0, 0, 0>>

\* a uint64 as four 16-bit limbs, least significant first
LimbBase == 2 ^ 16

ZeroUint == <<0, 0, 0, 0>>

\* type Paper struct: the zero value
ZeroPaper ==
    [URL |-> <<>>, DOI |-> <<>>, Updated |-> ZeroTime, Published |-> ZeroTime,
     Title |-> <<>>, Summary |-> <<>>, Categories |-> <<>>, Journal |-> <<>>,
     Authors |-> <<>>, Comment |-> <<>>, Pages |-> ZeroUint]

\* a Go slice: nil, or a (possibly empty) sequence of elements
NilSlice == [isNil |-> TRUE, elems |-> <<>>]

Slice(s) == [isNil |-> FALSE, elems |-> s]

\* func NewQuery(searchTerm string, start uint, max uint) *Query
NewQueryValue(searchTerm, start, max) ==
    [Query |-> <<"a", "l", "l", ":">> \o searchTerm, IDList |-> NilSlice,
     Start |-> start, Max |-> max]

-----------------------------------------------------------------------------
(* Library functions src/search.go calls.                                  *)

\* the characters the regular expression class \s matches (RE2: [\t\n\f\r ])
ReSpace == {" ", "\t", "\n", "\f", "\r"}

\* the characters unicode.IsSpace holds of, among those of the model;
\* "\\v" stands for the vertical tab and "NBSP" for U+00A0
UnicodeSpace == {" ", "\t", "\n", "\f", "\r", "\\v", "NBSP"}

\* spaceRe.ReplaceAll(s, " ") for spaceRe = [\s\n]+: every maximal run of
\* matching characters becomes one space
RECURSIVE ReplaceSpaces(_)
ReplaceSpaces(s) ==
    IF s = <<>> THEN <<>>
    ELSE IF Head(s) \in ReSpace \cup {"\n"}
         THEN IF Len(s) > 1 /\ s[2] \in ReSpace \cup {"\n"}
              THEN ReplaceSpaces(Tail(s))
              ELSE <<" ">> \o ReplaceSpaces(Tail(s))
         ELSE <<Head(s)>> \o ReplaceSpaces(Tail(s))

\* strings.Trim(s, cutset): s without its leading and trailing characters of cutset
RECURSIVE TrimLeft(_, _)
TrimLeft(s, cutset) ==
    IF s # <<>> /\ Head(s) \in cutset THEN TrimLeft(Tail(s), cutset) ELSE s

RECURSIVE TrimRight(_, _)
TrimRight(s, cutset) ==
    IF s # <<>> /\ s[Len(s)] \in cutset
    THEN TrimRight(SubSeq(s, 1, Len(s) - 1), cutset)
    ELSE s

Trim(s, cutset) == TrimRight(TrimLeft(s, cutset), cutset)

\* strings.Fields(s): the maximal runs of non-space characters of s, in order
RECURSIVE Fields(_)
Fields(s) ==
    LET t == TrimLeft(s, UnicodeSpace)
    IN  IF t = <<>> THEN <<>>
        ELSE LET ends == {i \in 1..Len(t) : t[i] \in UnicodeSpace}
                 n    == IF ends = {} THEN Len(t)
                         ELSE (CHOOSE i \in ends : \A j \in ends : i <= j) - 1
             IN  <<SubSeq(t, 1, n)>> \o Fields(SubSeq(t, n + 1, Len(t)))

UpperCase == <<"A", "B", "C", "D", "E", "F", "G", "H", "I", "J", "K", "L", "M",
               "N", "O", "P", "Q", "R", "S", "T", "U", "V", "W", "X", "Y", "Z">>

LowerCase == <<"a", "b", "c", "d", "e", "f", "g", "h", "i", "j", "k", "l", "m",
               "n", "o", "p", "q", "r", "s", "t", "u", "v", "w", "x", "y", "z">>

LowerChar(c) ==
    IF \E i \in 1..26 : UpperCase[i] = c
    THEN LowerCase[CHOOSE i \in 1..26 : UpperCase[i] = c]
    ELSE c

\* strings.ToLower(s)
ToLower(s) == [i \in 1..Len(s) |-> LowerChar(s[i])]

\* strings.EqualFold(s, t), for the ASCII characters of the model
EqualFold(s, t) == ToLower(s) = ToLower(t)

\* one step of strconv.ParseUint's loop: n*10 + d over the limbs of n;
\* the carry out of the top limb is the overflow
MulAdd(n, d) ==
    LET a1 == n[1] * 10 + d
        a2 == n[2] * 10 + (a1 \div LimbBase)
        a3 == n[3] * 10 + (a2 \div LimbBase)
        a4 == n[4] * 10 + (a3 \div LimbBase)
    IN  [val |-> <<a1 % LimbBase, a2 % LimbBase, a3 % LimbBase, a4 % LimbBase>>,
         overflow |-> a4 \div LimbBase # 0]

\* strconv.ParseUint(s, 10, 64): err is nil only for a non-empty string of
\* decimal digits whose value is below 2^64
RECURSIVE ParseUintFrom(_, _)
ParseUintFrom(s, n) ==
    IF s = <<>> THEN [ok |-> TRUE, val |-> n]
    ELSE IF ~IsDigit(Head(s)) THEN [ok |-> FALSE, val |-> ZeroUint]
    ELSE LET m == MulAdd(n, DigitVal(Head(s)))
         IN  IF m.overflow THEN [ok |-> FALSE, val |-> ZeroUint]
             ELSE ParseUintFrom(Tail(s), m.val)

ParseUint(s) ==
    IF s = <<>> THEN [ok |-> FALSE, val |-> ZeroUint]
    ELSE ParseUintFrom(s, ZeroUint)

\* uint(x) for a uint64 x: the low bits words of it
ToUint(x, bits) == IF bits = 32 THEN <<x[1], x[2], 0, 0>> ELSE x

NumAt(s, from, to) ==
    LET RECURSIVE Val(_, _)
        Val(i, acc) == IF i > to THEN acc ELSE Val(i + 1, acc * 10 + DigitVal(s[i]))
    IN  Val(from, 0)

DaysIn(month, year) ==
    IF month = 2
    THEN (IF year % 4 = 0 /\ (year % 100 # 0 \/ year % 400 = 0) THEN 29 ELSE 28)
    ELSE IF month \in {4, 6, 9, 11} THEN 30 ELSE 31

\* time.Parse(time.RFC3339, s) for the strings the model's feeds hold: a text
\* of the form YYYY-MM-DDTHH:MM:SSZ with every field in range parses to that
\* UTC time; every other text of the model (none has a fraction or a numeric
\* zone offset) is an error
ParseRFC3339(s) ==
    LET shape == /\ Len(s) = 20
                 /\ \A i \in {1, 2, 3, 4, 6, 7, 9, 10, 12, 13, 15, 16, 18, 19} : IsDigit(s[i])
                 /\ s[5] = "-" /\ s[8] = "-" /\ s[11] = "T"
                 /\ s[14] = ":" /\ s[17] = ":" /\ s[20] = "Z"
        t == <<NumAt(s, 1, 4), NumAt(s, 6, 7), NumAt(s, 9, 10),
               NumAt(s, 12, 13), NumAt(s, 15, 16), NumAt(s, 18, 19)>>
    IN  IF shape /\ t[2] \in 1..12 /\ t[3] \in 1..DaysIn(t[2], t[1])
              /\ t[4] < 24 /\ t[5] < 60 /\ t[6] < 60
        THEN [ok |-> TRUE, val |-> t]
        ELSE [ok |-> FALSE, val |-> ZeroTime]

-----------------------------------------------------------------------------
(* src/search.go: the parts of parsePaper that follow a leaf read.         *)

\* the two calls of the title and summary cases in the other order:
\* strings.Trim, then spaceRe.ReplaceAll
NormalizeTrimFirst(s) == ReplaceSpaces(Trim(s, {" ", "\t", "\n"}))

\* the title and summary cases without the call of spaceRe.ReplaceAll
NormalizeTrimOnly(s) == Trim(s, {" ", "\t", "\n"})

\* the title and summary cases: spaceRe.ReplaceAll, then strings.Trim
Normalize(s) == Trim(ReplaceSpaces(s), {" ", "\t", "\n"})

\* the updated and published cases as paper.Updated, _ = time.Parse(...):
\* time.Parse returns the zero Time with an error
SetTimeAlways(old, s) == ParseRFC3339(s).val

\* the updated and published cases: the field is assigned only if err == nil
SetTime(old, s) ==
    LET r == ParseRFC3339(s) IN IF r.ok THEN r.val ELSE old

\* the loop of the comment case reading the number after the word
\* (fields[i+1]) instead of the one before it
PagesNumberAfter(comment, pages, bits) ==
    LET fields == Fields(comment)
        RECURSIVE Loop(_, _)
        Loop(i, acc) ==
            IF i > Len(fields) THEN acc
            ELSE LET fieldParsed == ToLower(Trim(fields[i], {","}))
                 IN  IF (fieldParsed = <<"p", "a", "g", "e", "s">>
                            \/ fieldParsed = <<"p", "a", "g", "e">>) /\ i < Len(fields)
                     THEN LET r == ParseUint(fields[i + 1])
                          IN  Loop(i + 1, IF r.ok THEN ToUint(r.val, bits) ELSE acc)
                     ELSE Loop(i + 1, acc)
    IN  Loop(1, pages)

\* the loop of the comment case without strings.ToLower
PagesCaseSensitive(comment, pages, bits) ==
    LET fields == Fields(comment)
        RECURSIVE Loop(_, _)
        Loop(i, acc) ==
            IF i > Len(fields) THEN acc
            ELSE LET fieldParsed == Trim(fields[i], {","})
                 IN  IF (fieldParsed = <<"p", "a", "g", "e", "s">>
                            \/ fieldParsed = <<"p", "a", "g", "e">>) /\ i > 1
                     THEN LET r == ParseUint(fields[i - 1])
                          IN  Loop(i + 1, IF r.ok THEN ToUint(r.val, bits) ELSE acc)
                     ELSE Loop(i + 1, acc)
    IN  Loop(1, pages)

\* the comment case: the loop over strings.Fields(paper.Comment); pages is
\* paper.Pages before the loop, the result is paper.Pages after it
PagesHeuristic(comment, pages, bits) ==
    LET fields == Fields(comment)
        RECURSIVE Loop(_, _)
        Loop(i, acc) ==
            IF i > Len(fields) THEN acc
            ELSE LET fieldParsed == ToLower(Trim(fields[i], {","}))
                 IN  IF (fieldParsed = <<"p", "a", "g", "e", "s">>
                            \/ fieldParsed = <<"p", "a", "g", "e">>) /\ i > 1
                     THEN LET r == ParseUint(fields[i - 1])
                          IN  Loop(i + 1, IF r.ok THEN ToUint(r.val, bits) ELSE acc)
                     ELSE Loop(i + 1, acc)
    IN  Loop(1, pages)

-----------------------------------------------------------------------------
(* The response body, as encoding/xml's Decoder hands it out.              *)

spaceAtom == "http://www.w3.org/2005/Atom"

spaceArXiv == "http://arxiv.org/schemas/atom"

XMLName(space, local) == [space |-> space, local |-> local]

NoName == XMLName("", "")

\* xml.Attr
Attr(space, local, value) == [name |-> XMLName(space, local), value |-> value]

\* the attribute lists a category start tag of the model may carry; the code
\* reads the attributes of no other element
AttrLists ==
    { <<>>,
      <<Attr("", "term", <<"c", "s">>)>>,
      <<Attr("", "scheme", <<"s">>), Attr("", "term", <<"m", "a">>)>>,
      <<Attr("x", "term", <<"q">>), Attr("", "term", <<"c", "s">>)>> }

\* the sequences of at most n elements of S
RECURSIVE SeqsUpTo(_, _)
SeqsUpTo(S, n) ==
    IF n = 0 THEN {<<>>}
    ELSE LET shorter == SeqsUpTo(S, n - 1)
         IN  shorter \cup {Append(t, x) : t \in shorter, x \in S}

\* the whitespace-separated fields the shorter comments of the model are
\* made of
CommentFields ==
    { <<"5">>, <<"P", "a", "g", "e", ",">> }

RECURSIVE JoinFields(_)
JoinFields(fs) ==
    IF fs = <<>> THEN <<>>
    ELSE IF Len(fs) = 1 THEN Head(fs)
    ELSE Head(fs) \o <<" ">> \o JoinFields(Tail(fs))

\* further comments: those of the documentation, other white space, other
\* placements of the commas, and numbers around 2^32 and 2^64
\* (4294967301 = 2^32 + 5, 18446744073709551616 = 2^64)
LongComments ==
    { <<"5", " ", "p", "a", "g", "e", "s", ",", " ", "2", " ", "f", "i", "g", "u", "r", "e", "s">>,
      <<"1", "0", " ", "p", "a", "g", "e">>,
      <<"n", "o", " ", "n", "u", "m", "e", "r", "i", "c", " ", "i", "n", "f", "o">>,
      <<"5", " ", "p", "a", "g", "e", "s", " ", "7", " ", "p", "a", "g", "e">>,
      <<"\n", "0", "1", "0", "\t", " ", "P", "A", "G", "E", "\n">>,
      <<"3", "NBSP", "p", "a", "g", "e", "s", ",", ",">>,
      <<"5", " ", ",", "p", "a", "g", "e", "s">>,
      <<"-", "5", " ", "p", "a", "g", "e", "s">>,
      <<"5", ",", " ", "p", "a", "g", "e", "s">>,
      <<"5", "p", "a", "g", "e", "s">>,
      <<"4", "2", "9", "4", "9", "6", "7", "3", "0", "1", " ", "p", "a", "g", "e", "s">>,
      <<"1", "8", "4", "4", "6", "7", "4", "4", "0", "7", "3", "7", "0", "9", "5", "5",
        "1", "6", "1", "5", " ", "p", "a", "g", "e">>,
      <<"1", "8", "4", "4", "6", "7", "4", "4", "0", "7", "3", "7", "0", "9", "5", "5",
        "1", "6", "1", "6", " ", "p", "a", "g", "e", "s">> }

CommentTexts ==
    {JoinFields(fs) : fs \in SeqsUpTo(CommentFields, MaxFields)} \cup LongComments

Atom(local) == XMLName(spaceAtom, local)

ArXiv(local) == XMLName(spaceArXiv, local)

TextError == <<" ", "E", "r", "r", "O", "R", "\n">>

TextSpaced == <<"a", " ", "\n", "b">>

TextTime == <<"2", "0", "2", "0", "-", "0", "2", "-", "2", "9", "T",
              "0", "4", ":", "0", "5", ":", "0", "6", "Z">>

TextBadTime == <<"2", "0", "2", "1", "-", "0", "2", "-", "2", "9", "T",
                 "0", "4", ":", "0", "5", ":", "0", "6", "Z">>

TextPages == <<"5", " ", "p", "a", "g", "e", "s">>

TextName == <<"N">>

\* a text with a no-break space (U+00A0) inside
TextNoBreak == <<"\t", "a", "NBSP", " ", "\r", "\n", "b", " ">>

\* the vocabularies of the responses of the model: each response draws its
\* element names and its character data from one of them. Together they
\* hold the entry, every element parsePaper and parseAuthor have a case for,
\* and elements they have none for.
Vocabularies ==
    [ none |-> [names |-> {}, texts |-> {}],
      titles |-> [names |-> {Atom("entry"), Atom("title"), Atom("summary"), ArXiv("title"),
                  Atom("feed")},
       texts |-> {TextError, TextSpaced}],
      times |-> [names |-> {Atom("entry"), Atom("updated"), Atom("published"), Atom("id"),
                  Atom("title")},
       texts |-> {TextTime, TextBadTime}],
      people |-> [names |-> {Atom("entry"), Atom("author"), Atom("name"), ArXiv("affiliation"),
                  Atom("category"), ArXiv("entry")},
       texts |-> {TextSpaced}],
      extension |-> [names |-> {Atom("entry"), ArXiv("doi"), ArXiv("journal_ref"), ArXiv("comment"),
                  Atom("doi")},
       texts |-> {TextPages, TextSpaced}],
      comments |-> [names |-> {Atom("entry"), ArXiv("comment"), Atom("author"),
                               Atom("category")},
                    texts |-> CommentTexts],
      spaces |-> [names |-> {Atom("entry"), Atom("title"), Atom("summary"), Atom("author"),
                             Atom("category")},
                  texts |-> {TextSpaced, TextNoBreak}],
      records |-> [names |-> {Atom("entry"), Atom("author"), Atom("name"), Atom("category"),
                              Atom("id")},
                   texts |-> {TextName}] ]

\* of these, the attribute lists of the responses whose tokens are kept
RecordAttrLists ==
    { <<Attr("", "term", <<"c", "s">>)>>,
      <<Attr("x", "term", <<"q">>), Attr("", "term", <<"c", "s">>)>> }

AttrsOf(n) ==
    IF n.local # "category" THEN {<<>>}
    ELSE IF vocab = "records" THEN RecordAttrLists ELSE AttrLists

\* xml.Token: StartElement, EndElement, CharData, Comment (standing for the
\* kinds the code never looks at: Comment, ProcInst, Directive), and the two
\* errors Token() returns: io.EOF and a syntax error
Tok(kind, name, attr, text) == [kind |-> kind, name |-> name, attr |-> attr, text |-> text]

StartTok(name, attr) == Tok("Start", name, attr, <<>>)

EndTok(name) == Tok("End", name, <<>>, <<>>)

CharTok(text) == Tok("CharData", NoName, <<>>, text)

CommentTok == Tok("Comment", NoName, <<>>, <<>>)

EOFTok == Tok("EOF", NoName, <<>>, <<>>)

ErrTok == Tok("Err", NoName, <<>>, <<>>)

\* the syntax error Token() returns when the input ends inside an open
\* element ("unexpected EOF"): to the code an error like any other
TruncatedTok == Tok("Err", NoName, <<>>, <<"unexpected EOF">>)

\* what the variable token keeps of a token: its kind and name (the text and
\* the attributes live on only where the code stores them)
Seen(tok) == [kind |-> tok.kind, name |-> tok.name]

NoToken == [kind |-> "None", name |-> NoName]

\* d.Token(): the tokens the decoder may return next. In strict mode (the
\* default of xml.NewDecoder) an end tag always matches the innermost open
\* element and io.EOF comes only when no element is open: input that ends
\* inside an open element is a syntax error; a syntax error may come at any
\* point.
NextTokens ==
    {ErrTok}
    \cup (IF stack = <<>> THEN {EOFTok} ELSE {EndTok(stack[Len(stack)]), TruncatedTok})
    \cup (IF nread < (IF vocab = "records" THEN MaxHistory ELSE MaxTokens)
          THEN {CharTok(t) : t \in Vocabularies[vocab].texts} \cup {CommentTok}
               \cup (IF Len(stack) < MaxDepth
                     THEN UNION {{StartTok(n, a) : a \in AttrsOf(n)} : n \in Vocabularies[vocab].names}
                     ELSE {})
          ELSE {})

\* the decoder's state after it returned tok
Advance(tok) ==
    /\ token' = Seen(tok)
    /\ stack' = CASE tok.kind = "Start" -> Append(stack, tok.name)
                  [] tok.kind = "End"   -> SubSeq(stack, 1, Len(stack) - 1)
                  [] OTHER              -> stack
    /\ nread' = IF tok.kind \in {"Start", "CharData", "Comment"} THEN nread + 1 ELSE nread
    /\ doc' = IF vocab = "records" THEN Append(doc, tok) ELSE doc

\* d.Token() returned a non-nil err (io.EOF included)
IsErr(tok) == tok.kind \in {"EOF", "Err"}

-----------------------------------------------------------------------------
(* src/search.go: Search and the parsers.                                  *)

NoErr == [kind |-> "nil", msg |-> <<>>]

\* fmt.Errorf("failed to execute search: %w", err)
TransportErr == [kind |-> "transport", msg |-> <<>>]

\* fmt.Errorf("failed to parse search results: %w", err)
TokenErr == [kind |-> "token", msg |-> <<>>]

\* fmt.Errorf("failed to parse search results: expected EndElement")
ExpectedEndErr == [kind |-> "expectedEnd", msg |-> <<>>]

\* type SearchError string
SearchError(msg) == [kind |-> "SearchError", msg |-> msg]

NoRet == [papers |-> NilSlice, err |-> NoErr]

\* continue: the loop of Search goes on after the error
FailGoOn(err) ==
    /\ pc' = "top"
    /\ UNCHANGED ret

\* return out, err
FailKeepingOut(err) ==
    /\ pc' = "done"
    /\ ret' = [papers |-> Slice(out), err |-> err]

\* return nil, err
Fail(err) ==
    /\ pc' = "done"
    /\ ret' = [papers |-> NilSlice, err |-> err]

\* the paper parsePaper is filling: &out[len(out)-1]
Cur == out[Len(out)]

SetCur(p) == out' = [out EXCEPT ![Len(out)] = p]

\* the field a getInnerValue call writes through its ret argument
Deref(tgt) ==
    CASE tgt = "str"         -> str
      [] tgt = "Name"        -> Cur.Authors[Len(Cur.Authors)].Name
      [] tgt = "Affiliation" -> Cur.Authors[Len(Cur.Authors)].Affiliation
      [] OTHER               -> Cur[tgt]

\* *ret = v
Store(tgt, v) ==
    CASE tgt = "str" -> str' = v /\ UNCHANGED out
      [] tgt \in {"Name", "Affiliation"} ->
            /\ SetCur([Cur EXCEPT !.Authors[Len(Cur.Authors)][tgt] = v])
            /\ UNCHANGED str
      [] OTHER -> SetCur([Cur EXCEPT ![tgt] = v]) /\ UNCHANGED str

\* the test of the top-level loop without its namespace half
IsEntryAnySpace(tok) == tok.kind = "Start" /\ tok.name.local = "entry"

\* the test of the top-level loop: elem.Name.Local == "entry" && elem.Name.Space == spaceAtom
IsEntry(tok) ==
    tok.kind = "Start" /\ tok.name.local = "entry" /\ tok.name.space = spaceAtom

\* the title test applied to paper.Summary
SummaryIsError(p) == EqualFold(p.Summary, <<"e", "r", "r", "o", "r">>)

\* the title test as paper.Title == "error"
TitleIsErrorExact(p) == p.Title = <<"e", "r", "r", "o", "r">>

\* strings.EqualFold(paper.Title, "error")
TitleIsError(p) == EqualFold(p.Title, <<"e", "r", "r", "o", "r">>)

\* Search, after parsePaper returned nil for the paper at the end of out
AfterPaper ==
    IF TitleIsError(Cur)
    THEN /\ pc' = "done"
         /\ ret' = [papers |-> NilSlice, err |-> SearchError(Cur.Summary)]
    ELSE /\ pc' = "top"
         /\ UNCHANGED ret

\* the category case: the value of the first attribute with local name term
Terms(attr) ==
    LET hits == {i \in 1..Len(attr) : attr[i].name.local = "term"}
    IN  IF hits = {} THEN <<>>
        ELSE <<attr[CHOOSE i \in hits : \A j \in hits : i <= j].value>>

\* parsePaper's switch as a switch on elem.Name.Local alone
PaperCaseLocalOnly(name) ==
    CASE name.local = "id"          -> "URL"
      [] name.local = "title"       -> "Title"
      [] name.local = "summary"     -> "Summary"
      [] name.local = "updated"     -> "Updated"
      [] name.local = "published"   -> "Published"
      [] name.local = "author"      -> "Authors"
      [] name.local = "category"    -> "Categories"
      [] name.local = "doi"         -> "DOI"
      [] name.local = "journal_ref" -> "Journal"
      [] name.local = "comment"     -> "Comment"
      [] OTHER -> ""

\* parsePaper's switch on elem.Name.Space and elem.Name.Local: the field the
\* element is read into ("" for an element the switch has no case for)
PaperCase(name) ==
    CASE name.space = spaceAtom /\ name.local = "id"           -> "URL"
      [] name.space = spaceAtom /\ name.local = "title"        -> "Title"
      [] name.space = spaceAtom /\ name.local = "summary"      -> "Summary"
      [] name.space = spaceAtom /\ name.local = "updated"      -> "Updated"
      [] name.space = spaceAtom /\ name.local = "published"    -> "Published"
      [] name.space = spaceAtom /\ name.local = "author"       -> "Authors"
      [] name.space = spaceAtom /\ name.local = "category"     -> "Categories"
      [] name.space = spaceArXiv /\ name.local = "doi"         -> "DOI"
      [] name.space = spaceArXiv /\ name.local = "journal_ref" -> "Journal"
      [] name.space = spaceArXiv /\ name.local = "comment"     -> "Comment"
      [] OTHER -> ""

\* parseAuthor's switch on elem.Name.Local
AuthorCase(name) ==
    CASE name.local = "name"        -> "Name"
      [] name.local = "affiliation" -> "Affiliation"
      [] OTHER -> ""

\* what the caller of getInnerValue does with the paper once the call
\* returned nil: s is the local str of the updated and published cases
AfterLeaf(p, tgt, s, bits) ==
    CASE tgt = "Title"     -> [p EXCEPT !.Title = Normalize(p.Title)]
      [] tgt = "Summary"   -> [p EXCEPT !.Summary = Normalize(p.Summary)]
      [] tgt = "Updated"   -> [p EXCEPT !.Updated = SetTime(p.Updated, s)]
      [] tgt = "Published" -> [p EXCEPT !.Published = SetTime(p.Published, s)]
      [] tgt = "Comment"   -> [p EXCEPT !.Pages = PagesHeuristic(p.Comment, p.Pages, bits)]
      [] OTHER             -> p

\* the argument getInnerValue is called with for a field: &str in the
\* updated and published cases, the address of the field otherwise
RetArg(tgt) == IF tgt \in {"Updated", "Published"} THEN "str" ELSE tgt

\* getInnerValue returned nil: back in parsePaper or parseAuthor
LeafReturn(p, text) ==
    /\ out' = [out EXCEPT ![Len(out)] = AfterLeaf(p, target, str, uintBits)]
    /\ str' = str
    /\ pc' = IF target \in {"Name", "Affiliation"} THEN "author" ELSE "paper"
    /\ target' = ""
    /\ commentLog' = IF target = "Comment"
                     THEN [commentLog EXCEPT ![Len(out)] = Append(@, text)]
                     ELSE commentLog
    /\ UNCHANGED ret

\* resp, err := http.Get(...); d := xml.NewDecoder(resp.Body); out := make([]Paper, 0)
HttpGet ==
    /\ pc = "get"
    /\ \E ok \in BOOLEAN :
         IF ok THEN pc' = "top" /\ UNCHANGED ret
               ELSE Fail(TransportErr)
    /\ UNCHANGED <<q, values, idArg, idRet, uintBits, vocab, stack, nread,
                   token, target, str, out, commentLog, doc>>

\* one round of Search's loop: lines 53-79 up to the call of parsePaper
SearchTop ==
    /\ pc = "top"
    /\ \E tok \in NextTokens :
         /\ Advance(tok)
         /\ CASE tok.kind = "EOF" ->
                   /\ pc' = "done"
                   /\ ret' = [papers |-> Slice(out), err |-> NoErr]
                   /\ UNCHANGED <<out, commentLog>>
              [] tok.kind = "Err" ->
                   Fail(TokenErr) /\ UNCHANGED <<out, commentLog>>
              [] IsEntry(tok) ->
                   /\ out' = Append(out, ZeroPaper)
                   /\ commentLog' = Append(commentLog, <<>>)
                   /\ pc' = "paper"
                   /\ UNCHANGED ret
              [] OTHER ->
                   UNCHANGED <<pc, ret, out, commentLog>>
    /\ UNCHANGED <<q, values, idArg, idRet, uintBits, vocab, target, str>>

\* one round of parsePaper's loop, up to the first call it makes
PaperStep ==
    /\ pc = "paper"
    /\ \E tok \in NextTokens :
         /\ Advance(tok)
         /\ CASE tok.kind = "EOF" ->
                   AfterPaper /\ UNCHANGED <<out, target, str>>
              [] tok.kind = "Err" ->
                   Fail(TokenErr) /\ UNCHANGED <<out, target, str>>
              [] tok.kind = "End" /\ tok.name.local = "entry" ->
                   AfterPaper /\ UNCHANGED <<out, target, str>>
              [] tok.kind = "Start" /\ PaperCase(tok.name) = "Authors" ->
                   /\ SetCur([Cur EXCEPT !.Authors = Append(@, ZeroAuthor)])
                   /\ pc' = "author"
                   /\ UNCHANGED <<ret, target, str>>
              [] tok.kind = "Start" /\ PaperCase(tok.name) = "Categories" ->
                   /\ SetCur([Cur EXCEPT !.Categories = @ \o Terms(tok.attr)])
                   /\ pc' = "catEnd"
                   /\ UNCHANGED <<ret, target, str>>
              [] tok.kind = "Start" /\ PaperCase(tok.name) \notin {"", "Authors", "Categories"} ->
                   /\ target' = PaperCase(tok.name)
                   /\ str' = IF RetArg(PaperCase(tok.name)) = "str" THEN <<>> ELSE str
                   /\ pc' = "leaf1"
                   /\ UNCHANGED <<ret, out>>
              [] OTHER ->
                   UNCHANGED <<pc, ret, out, target, str>>
    /\ UNCHANGED <<q, values, idArg, idRet, uintBits, vocab, commentLog>>

\* one round of parseAuthor's loop, up to the call of getInnerValue
AuthorStep ==
    /\ pc = "author"
    /\ \E tok \in NextTokens :
         /\ Advance(tok)
         /\ CASE tok.kind = "EOF" ->
                   pc' = "paper" /\ UNCHANGED <<ret, target>>
              [] tok.kind = "Err" ->
                   Fail(TokenErr) /\ UNCHANGED target
              [] tok.kind = "End" /\ tok.name.local = "author" ->
                   pc' = "paper" /\ UNCHANGED <<ret, target>>
              [] tok.kind = "Start" /\ AuthorCase(tok.name) # "" ->
                   /\ target' = AuthorCase(tok.name)
                   /\ pc' = "leaf1"
                   /\ UNCHANGED ret
              [] OTHER ->
                   UNCHANGED <<pc, ret, target>>
    /\ UNCHANGED <<q, values, idArg, idRet, uintBits, vocab, str, out, commentLog>>

\* the category case after the attributes: the next token must be an end tag
CategoryEnd ==
    /\ pc = "catEnd"
    /\ \E tok \in NextTokens :
         /\ Advance(tok)
         /\ CASE IsErr(tok)       -> Fail(TokenErr)
              [] tok.kind = "End" -> pc' = "paper" /\ UNCHANGED ret
              [] OTHER            -> Fail(ExpectedEndErr)
    /\ UNCHANGED <<q, values, idArg, idRet, uintBits, vocab, target, str, out, commentLog>>

\* getInnerValue, first d.Token(): character data is stored through ret and
\* the end tag is still to come; an end tag ends the call with ret untouched
LeafFirst ==
    /\ pc = "leaf1"
    /\ \E tok \in NextTokens :
         /\ Advance(tok)
         /\ CASE IsErr(tok) ->
                   Fail(TokenErr) /\ UNCHANGED <<out, target, str, commentLog>>
              [] tok.kind = "CharData" ->
                   /\ Store(RetArg(target), tok.text)
                   /\ pc' = "leaf2"
                   /\ UNCHANGED <<ret, target, commentLog>>
              [] tok.kind = "End" ->
                   LeafReturn(Cur, <<>>)
              [] OTHER ->
                   Fail(ExpectedEndErr) /\ UNCHANGED <<out, target, str, commentLog>>
    /\ UNCHANGED <<q, values, idArg, idRet, uintBits, vocab>>

\* getInnerValue, second d.Token(), after character data
LeafSecond ==
    /\ pc = "leaf2"
    /\ \E tok \in NextTokens :
         /\ Advance(tok)
         /\ CASE IsErr(tok) ->
                   Fail(TokenErr) /\ UNCHANGED <<out, target, str, commentLog>>
              [] tok.kind = "End" ->
                   LeafReturn(Cur, Deref(RetArg(target)))
              [] OTHER ->
                   Fail(ExpectedEndErr) /\ UNCHANGED <<out, target, str, commentLog>>
    /\ UNCHANGED <<q, values, idArg, idRet, uintBits, vocab>>

NextSearch ==
    \/ HttpGet
    \/ SearchTop
    \/ PaperStep
    \/ AuthorStep
    \/ CategoryEnd
    \/ LeafFirst
    \/ LeafSecond

-----------------------------------------------------------------------------
(* src/search.go: the request parameters (Search, lines 28-42), and the    *)
(* callers' construction of the Query.                                     *)

\* values.Set(key, value)
SetValue(vs, key, value) == {kv \in vs : kv[1] # key} \cup {<<key, value>>}

\* the loop over q.IDList: every id followed by a comma
RECURSIVE JoinIDs(_)
JoinIDs(ids) ==
    IF ids = <<>> THEN <<>> ELSE Head(ids) \o <<",">> \o JoinIDs(Tail(ids))

\* lines 28-42: the url.Values Search builds for query, or the panic of
\* str[:len(str)-1] on an empty str (slice bounds out of range)
RequestValues(query) ==
    LET v0 == {}
        v1 == IF query.Query # <<>> THEN SetValue(v0, "search_query", query.Query) ELSE v0
        joined == JoinIDs(query.IDList.elems)
        panics == ~query.IDList.isNil /\ Len(joined) - 1 < 0
        v2 == IF query.IDList.isNil \/ panics THEN v1
              ELSE SetValue(v1, "id_list", SubSeq(joined, 1, Len(joined) - 1))
        v3 == SetValue(v2, "start", Sprint(query.Start))
        v4 == SetValue(v3, "max_results", Sprint(query.Max))
    IN  [panics |-> panics, values |-> IF panics THEN v1 ELSE v4]

\* search terms, search expressions, identifiers and offsets of the model
SearchTerms == {<<>>, <<"x">>}

QueryStrings == {<<>>, <<"a">>, <<"a", "l", "l", ":", "x">>}

IDs == {<<>>, <<"1">>, <<"2", "2">>}

IDLists == {NilSlice} \cup {Slice(ids) : ids \in SeqsUpTo(IDs, MaxIDs)}

Starts == {0, 7, 120}

Maxes == {1, 10, 30000}

NoQuery == [Query |-> <<>>, IDList |-> NilSlice, Start |-> 0, Max |-> 0]

\* a caller's q := NewQuery(searchTerm, start, max)
NewQuery ==
    /\ pc = "args"
    /\ \E term \in SearchTerms, start \in Starts, max \in Maxes :
         q' = NewQueryValue(term, start, max)
    /\ pc' = "search"
    /\ UNCHANGED <<values, idArg, idRet, uintBits, vocab, stack, nread,
                   token, target, str, out, ret, commentLog, doc>>

\* a caller's q := &Query{...}
QueryLiteral ==
    /\ pc = "args"
    /\ \E qs \in QueryStrings, ids \in IDLists, start \in Starts, max \in Maxes :
         q' = [Query |-> qs, IDList |-> ids, Start |-> start, Max |-> max]
    /\ pc' = "search"
    /\ UNCHANGED <<values, idArg, idRet, uintBits, vocab, stack, nread,
                   token, target, str, out, ret, commentLog, doc>>

\* Search(q), lines 28-42
BuildRequest ==
    /\ pc = "search"
    /\ values' = RequestValues(q).values
    /\ pc' = IF RequestValues(q).panics THEN "panic" ELSE "get"
    /\ UNCHANGED <<q, idArg, idRet, uintBits, vocab, stack, nread,
                   token, target, str, out, ret, commentLog, doc>>

NextQuery ==
    \/ NewQuery
    \/ QueryLiteral
    \/ BuildRequest

-----------------------------------------------------------------------------
(* src/arxiv.go: a call of Paper.ID().                                     *)

URLPieces ==
    { AbsMarker, <<"/">>, <<"a", "b", "s">>, <<"x">>, <<"1", ".", "2">>,
      <<"h", ":", "/", "/", "e">> }

RECURSIVE Concat(_)
Concat(ss) == IF ss = <<>> THEN <<>> ELSE Head(ss) \o Concat(Tail(ss))

URLs == {Concat(ps) : ps \in SeqsUpTo(URLPieces, MaxPieces)}

\* id := p.ID()
CallID ==
    /\ pc = "id"
    /\ idRet' = ID(idArg)
    /\ pc' = "idDone"
    /\ UNCHANGED <<q, values, idArg, uintBits, vocab, stack, nread,
                   token, target, str, out, ret, commentLog, doc>>

-----------------------------------------------------------------------------
(* The responses of the model.                                             *)

\* the state of a Search call that built its request: lines 28-42 done
InitSearch ==
    /\ pc = "get"
    /\ q = NewQueryValue(<<"x">>, 0, 10)
    /\ values = RequestValues(q).values
    /\ idArg = ZeroPaper
    /\ idRet = <<>>
    /\ uintBits \in {32, 64}
    /\ stack = <<>>
    /\ nread = 0
    /\ token = NoToken
    /\ target = ""
    /\ str = <<>>
    /\ out = <<>>
    /\ ret = NoRet
    /\ commentLog = <<>>
    /\ doc = <<>>

Init ==
    /\ InitSearch
    /\ vocab \in {"titles", "times", "people", "extension"}

Next == NextSearch

\* responses whose character data are comments
InitPages ==
    /\ InitSearch
    /\ vocab = "comments"

SpecPages == InitPages /\ [][Next]_vars

\* responses whose character data are titles and summaries with white space
InitTitles ==
    /\ InitSearch
    /\ vocab = "spaces"

SpecTitles == InitTitles /\ [][Next]_vars

\* responses of entries, authors and categories, with the tokens handed out kept
InitRecords ==
    /\ InitSearch
    /\ vocab = "records"

SpecRecords == InitRecords /\ [][Next]_vars

\* the same responses, read by a call that is not suspended for ever: a
\* call that can take a step takes one
SpecRecordsFair == InitRecords /\ [][Next]_vars /\ WF_vars(Next)

Spec == Init /\ [][Next]_vars

\* a caller about to construct a Query and call Search
InitQuery ==
    /\ pc = "args"
    /\ q = NoQuery
    /\ values = {}
    /\ idArg = ZeroPaper
    /\ idRet = <<>>
    /\ uintBits \in {32, 64}
    /\ vocab = "none"
    /\ stack = <<>>
    /\ nread = 0
    /\ token = NoToken
    /\ target = ""
    /\ str = <<>>
    /\ out = <<>>
    /\ ret = NoRet
    /\ commentLog = <<>>
    /\ doc = <<>>

SpecQuery == InitQuery /\ [][NextQuery]_vars

\* a caller about to call ID() on a paper
InitID ==
    /\ pc = "id"
    /\ q = NoQuery
    /\ values = {}
    /\ \E u \in URLs : idArg = [ZeroPaper EXCEPT !.URL = u]
    /\ idRet = <<>>
    /\ uintBits \in {32, 64}
    /\ vocab = "none"
    /\ stack = <<>>
    /\ nread = 0
    /\ token = NoToken
    /\ target = ""
    /\ str = <<>>
    /\ out = <<>>
    /\ ret = NoRet
    /\ commentLog = <<>>
    /\ doc = <<>>

NextID == CallID

SpecID == InitID /\ [][NextID]_vars

-----------------------------------------------------------------------------
(* src/search.go: the whitespace normalization of a title on its own.      *)

\* the characters of the texts: a letter, the characters spaceRe matches
\* and a space character it does not match
TitleChars == {"a", " ", "\t", "\n", "\r", "NBSP"}

TitleTexts == SeqsUpTo(TitleChars, MaxChars)

\* paper.Title = string(spaceRe.ReplaceAll([]byte(paper.Title), []byte(" ")))
\* paper.Title = strings.Trim(paper.Title, " \t\n")
NormalizeTitle ==
    /\ pc \in {"raw", "normalized"}
    /\ SetCur([Cur EXCEPT !.Title = Normalize(Cur.Title)])
    /\ pc' = IF pc = "raw" THEN "normalized" ELSE "renormalized"
    /\ UNCHANGED <<q, values, idArg, idRet, uintBits, vocab, stack, nread,
                   token, target, str, ret, commentLog, doc>>

\* a paper whose Title holds the text str as getInnerValue stored it
InitNormalize ==
    /\ pc = "raw"
    /\ q = NoQuery
    /\ values = {}
    /\ idArg = ZeroPaper
    /\ idRet = <<>>
    /\ uintBits \in {32, 64}
    /\ vocab = "none"
    /\ stack = <<>>
    /\ nread = 0
    /\ token = NoToken
    /\ target = "Title"
    /\ str \in TitleTexts
    /\ out = <<[ZeroPaper EXCEPT !.Title = str]>>
    /\ ret = NoRet
    /\ commentLog = << <<>> >>
    /\ doc = <<>>

NextNormalize == NormalizeTitle

SpecNormalize == InitNormalize /\ [][NextNormalize]_vars

-----------------------------------------------------------------------------
(* Properties of the request parameters (SpecQuery).                       *)

\* the identifiers of ids in order, separated by single commas
RECURSIVE CommaSeparated(_)
CommaSeparated(ids) ==
    IF ids = <<>> THEN <<>>
    ELSE IF Len(ids) = 1 THEN ids[1]
    ELSE ids[1] \o <<",">> \o CommaSeparated(Tail(ids))

\* s is the decimal string of n: digits only, no leading zero, value n
IsDecimalOf(s, n) ==
    /\ s # <<>>
    /\ \A i \in 1..Len(s) : IsDigit(s[i])
    /\ (Len(s) > 1 => s[1] # "0")
    /\ NumAt(s, 1, Len(s)) = n

ParamNames == {"search_query", "id_list", "start", "max_results"}

Present(key) == \E kv \in values : kv[1] = key

ValueOf(key) == (CHOOSE kv \in values : kv[1] = key)[2]

Built == pc \in {"get", "panic"}

\* C1: building the request parameters never fails, whatever the Query: the
\* builder always completes and goes on to issue the request, also when
\* IDList is non-nil and has no entries.
C1_BuilderNeverFails == pc # "panic"

\* C6: once the parameters are built they are exactly: search_query =
\* Query.Query iff Query.Query is non-empty; id_list iff IDList is non-nil,
\* its value the entries in order separated by single commas; start and
\* max_results always, the decimal strings of Start and Max; nothing else,
\* and each name once.
C6_ExactParameters ==
    Built =>
        /\ \A kv \in values : kv[1] \in ParamNames
        /\ \A kv \in values : \A kw \in values : kv[1] = kw[1] => kv = kw
        /\ Present("search_query") <=> q.Query # <<>>
        /\ Present("search_query") => ValueOf("search_query") = q.Query
        /\ Present("id_list") <=> ~q.IDList.isNil
        /\ Present("id_list") => ValueOf("id_list") = CommaSeparated(q.IDList.elems)
        /\ Present("start") /\ Present("max_results")
        /\ Present("start") => IsDecimalOf(ValueOf("start"), q.Start)
        /\ Present("max_results") => IsDecimalOf(ValueOf("max_results"), q.Max)

-----------------------------------------------------------------------------
(* Properties of Paper.ID() (SpecID).                                      *)

\* the positions (from 1) at which "/abs/" starts in url
MarkerAt(url) ==
    {i \in 1..Len(url) : i + 4 <= Len(url) /\ \A k \in 1..5 : url[i + k - 1] = AbsMarker[k]}

\* the identifier the documentation gives for url
DocumentedID(url) ==
    IF MarkerAt(url) = {} THEN <<>>
    ELSE LET first == CHOOSE i \in MarkerAt(url) : \A j \in MarkerAt(url) : i <= j
             r     == [k \in 1..(Len(url) - first - 4) |-> url[first + 4 + k]]
         IN  IF \E k \in 1..Len(r) : r[k] = "/" THEN r ELSE ArXivPrefix \o r

\* C7: ID() returns the empty string for a URL without "/abs/"; otherwise,
\* with r the part of the URL after the first "/abs/", it returns "arXiv:" + r
\* when r holds no "/" and r itself when it holds one; and the call leaves the
\* Paper as it was.
C7_ID ==
    [][(pc = "id" /\ pc' = "idDone")
         => (idRet' = DocumentedID(idArg.URL) /\ idArg' = idArg)]_vars

\* a call returned an identifier with a "/" of a URL that holds "/abs/" twice
C7_Witness ==
    /\ pc = "idDone"
    /\ Cardinality(MarkerAt(idArg.URL)) = 2
    /\ idRet # <<>>
    /\ \E k \in 1..Len(idRet) : idRet[k] = "/"

-----------------------------------------------------------------------------
(* Properties of Search over a response (Spec).                            *)

\* t is "error" up to the case of its letters
IsErrorWord(t) ==
    /\ Len(t) = 5
    /\ t[1] \in {"e", "E"} /\ t[2] \in {"r", "R"} /\ t[3] \in {"r", "R"}
    /\ t[4] \in {"o", "O"} /\ t[5] \in {"r", "R"}

\* this step is parsePaper returning nil to Search
PaperReturns ==
    /\ pc = "paper"
    /\ pc' \in {"top", "done"}
    /\ ret'.err.kind \notin {"token", "expectedEnd"}

\* C2: when an entry has been parsed to completion without a decode error and
\* its Title is "error" in any case, Search stops there and returns a
\* SearchError whose message is that entry's Summary, with no records,
\* however many records were complete before; nothing is read after it.
\* An entry with another title lets the loop go on.
C2_ErrorEntry ==
    [][/\ PaperReturns =>
            IF IsErrorWord(out'[Len(out')].Title)
            THEN /\ pc' = "done"
                 /\ ret'.err = SearchError(out'[Len(out')].Summary)
                 /\ ret'.papers.elems = <<>>
            ELSE pc' = "top" /\ ret' = ret
       /\ pc # "done"]_vars

\* Search returned a SearchError with a message after an earlier record was complete
C2_Witness ==
    /\ pc = "done"
    /\ ret.err.kind = "SearchError"
    /\ Len(out) >= 2
    /\ IsErrorWord(out[Len(out)].Title)

\* the string a getInnerValue call is to fill, as its caller leaves it
FieldOf(p, tgt) ==
    CASE tgt \in {"Name", "Affiliation"} -> p.Authors[Len(p.Authors)][tgt]
      [] OTHER -> p[tgt]

StringFields == {"URL", "Title", "Summary", "DOI", "Journal", "Comment", "Name", "Affiliation"}

Returned == pc' \in {"paper", "author"}

DecodeError == pc' = "done" /\ ret'.err.kind \in {"token", "expectedEnd"} /\ ret'.papers.elems = <<>>

\* C3: a leaf read has three outcomes. An end tag right after the start tag:
\* the value of the field is the empty string, whatever it was before. Text,
\* then an end tag: the value is that text (normalized for a title or a
\* summary). Any other token sequence: a decode error.
C3_LeafOutcomes ==
    [][/\ (pc = "leaf1" /\ token'.kind = "End") =>
             /\ Returned
             /\ target \in StringFields => FieldOf(out'[Len(out')], target) = <<>>
       /\ (pc = "leaf1" /\ token'.kind = "CharData") => pc' = "leaf2"
       /\ (pc = "leaf1" /\ token'.kind \notin {"End", "CharData"}) => DecodeError
       /\ (pc = "leaf2" /\ token'.kind = "End") =>
             /\ Returned
             /\ target \in StringFields \ {"Title", "Summary"} =>
                   FieldOf(out'[Len(out')], target) = FieldOf(Cur, target)
             /\ target \in {"Title", "Summary"} =>
                   FieldOf(out'[Len(out')], target) = Normalize(FieldOf(Cur, target))
       /\ (pc = "leaf2" /\ token'.kind # "End") => DecodeError]_vars

\* C4: the top-level loop appends one empty Paper for every start tag "entry"
\* of the Atom namespace it reads and leaves out alone for any other token
\* (other kinds, "entry" of another namespace); below the top level only the
\* last record, the one being parsed, changes; and a return without error
\* returns out, so the records are those entries in document order.
C4_OnePaperPerEntry ==
    [][/\ pc = "top" =>
             out' = IF /\ token'.kind = "Start"
                       /\ token'.name = [space |-> spaceAtom, local |-> "entry"]
                    THEN Append(out, ZeroPaper)
                    ELSE out
       /\ pc # "top" =>
             /\ Len(out') = Len(out)
             /\ \A i \in 1..(Len(out) - 1) : out'[i] = out[i]
       /\ (pc' = "done" /\ ret'.err = NoErr) =>
             /\ pc = "top"
             /\ ret'.papers = [isNil |-> FALSE, elems |-> out']]_vars

\* Search returned two records without error
C4_Witness ==
    /\ pc = "done"
    /\ ret.err = NoErr
    /\ Len(ret.papers.elems) = 2

\* C5: a failure of the scanner, wherever it comes, makes Search return an
\* error and no records; and no return ever holds both records and an error.
C5_ScannerFailure ==
    [][/\ token'.kind = "Err" =>
             /\ pc' = "done"
             /\ ret'.err.kind = "token"
             /\ ret'.papers.elems = <<>>
       /\ (pc' = "done" /\ ret'.err # NoErr) => ret'.papers.elems = <<>>]_vars

\* the scanner failed inside a leaf of an author block, after a record was complete
C5_Witness ==
    /\ pc = "done"
    /\ token.kind = "Err"
    /\ target = "Name"
    /\ Len(out) >= 2
    /\ ret.err.kind = "token"

\* this step is getInnerValue returning nil in the updated or published case
\* with a text that is no timestamp
BadTimestampRead ==
    /\ pc \in {"leaf1", "leaf2"}
    /\ target \in {"Updated", "Published"}
    /\ token'.kind = "End"
    /\ ~ParseRFC3339(str).ok

\* C8 as stated: after an updated or published element whose text is no valid
\* timestamp no error is returned, the record goes on with the next token, the
\* field is the zero value and every other field is as before.
C8_ZeroOnBadTimestamp ==
    [][BadTimestampRead =>
          /\ pc' = "paper"
          /\ ret' = ret
          /\ out' = [out EXCEPT ![Len(out)][target] = ZeroTime]]_vars

\* C8, amended: after an updated or published element whose text is no valid
\* timestamp no error is returned, the record goes on with the next token, and
\* the field, like every other field, is as it was before the element (the
\* zero value unless an earlier element of the entry set it).
C8_UnchangedOnBadTimestamp ==
    [][BadTimestampRead =>
          /\ pc' = "paper"
          /\ ret' = ret
          /\ out' = out]_vars

\* an updated element without a valid timestamp was read after one with a valid one
C8_Witness ==
    /\ pc = "paper"
    /\ token = [kind |-> "End", name |-> [space |-> spaceAtom, local |-> "updated"]]
    /\ str = TextBadTime
    /\ Cur.Updated = <<2020, 2, 29, 4, 5, 6>>

-----------------------------------------------------------------------------
(* Properties of the page count (SpecPages).                               *)

\* the tokens of c: its maximal runs of characters that are not white space,
\* each as <<first, last>>
TokensOf(c) ==
    {t \in (1..Len(c)) \X (1..Len(c)) :
        /\ t[1] <= t[2]
        /\ \A k \in t[1]..t[2] : c[k] \notin UnicodeSpace
        /\ t[1] = 1 \/ c[t[1] - 1] \in UnicodeSpace
        /\ t[2] = Len(c) \/ c[t[2] + 1] \in UnicodeSpace}

Sub(c, t) == [k \in 1..(t[2] - t[1] + 1) |-> c[t[1] + k - 1]]

\* w is "page" or "pages" up to the case of its letters
IsPageWord(w) ==
    /\ Len(w) \in {4, 5}
    /\ w[1] \in {"p", "P"} /\ w[2] \in {"a", "A"} /\ w[3] \in {"g", "G"} /\ w[4] \in {"e", "E"}
    /\ Len(w) = 5 => w[5] \in {"s", "S"}

\* the word, optionally followed by one comma
IsPageWordComma(w) ==
    \/ IsPageWord(w)
    \/ Len(w) > 1 /\ w[Len(w)] = "," /\ IsPageWord([k \in 1..(Len(w) - 1) |-> w[k]])

\* the word between any number of commas
IsPageWordCommas(w) ==
    \E a \in 1..Len(w) : \E b \in a..Len(w) :
        /\ \A k \in 1..Len(w) : (k < a \/ k > b) => w[k] = ","
        /\ IsPageWord([k \in 1..(b - a + 1) |-> w[a + k - 1]])

\* n is a non-empty string of decimal digits
IsNumber(n) == n # <<>> /\ \A k \in 1..Len(n) : IsDigit(n[k])

\* a string of digits without its leading zeros
Canon(n) ==
    LET nz == {k \in 1..Len(n) : n[k] # "0"}
    IN  IF nz = {} THEN <<"0">>
        ELSE LET f == CHOOSE k \in nz : \A j \in nz : k <= j
             IN  [k \in 1..(Len(n) - f + 1) |-> n[f + k - 1]]

\* the number of the digits n is below that of the digits b
Below(n, b) ==
    LET c == Canon(n)
    IN  \/ Len(c) < Len(b)
        \/ /\ Len(c) = Len(b)
           /\ \E k \in 1..Len(c) :
                /\ DigitVal(c[k]) < DigitVal(b[k])
                /\ \A j \in 1..(k - 1) : c[j] = b[j]

TwoTo32 == <<"4", "2", "9", "4", "9", "6", "7", "2", "9", "6">>

TwoTo64 == <<"1", "8", "4", "4", "6", "7", "4", "4", "0", "7", "3", "7", "0", "9", "5", "5",
             "1", "6", "1", "6">>

\* the decimal digits of a uint64 given by its limbs
RECURSIVE DecimalOf(_)
DecimalOf(x) ==
    IF x = ZeroUint THEN <<>>
    ELSE LET c4 == x[4]
             c3 == (c4 % 10) * LimbBase + x[3]
             c2 == (c3 % 10) * LimbBase + x[2]
             c1 == (c2 % 10) * LimbBase + x[1]
         IN  DecimalOf(<<c1 \div 10, c2 \div 10, c3 \div 10, c4 \div 10>>)
                \o <<Digits[(c1 % 10) + 1]>>

FormatUint(x) == IF x = ZeroUint THEN <<"0">> ELSE DecimalOf(x)

\* the pairs <<n, w>> of adjacent tokens of c with n a number and w a word
PairsOf(c, IsWord(_)) ==
    {nw \in TokensOf(c) \X TokensOf(c) :
        /\ nw[1][2] < nw[2][1]
        /\ \A k \in (nw[1][2] + 1)..(nw[2][1] - 1) : c[k] \in UnicodeSpace
        /\ IsNumber(Sub(c, nw[1]))
        /\ IsWord(Sub(c, nw[2]))}

ReturnedOK == pc = "done" /\ ret.err = NoErr

\* C9 as stated: in a returned Paper, Pages is non-zero only if Comment holds
\* a token "pages" or "page" in any case, optionally followed by one comma,
\* right after a token that is a decimal number.
C9_PagesOnlyFromComment ==
    ReturnedOK =>
        \A i \in 1..Len(ret.papers.elems) :
            LET p == ret.papers.elems[i]
            IN  p.Pages # ZeroUint => PairsOf(p.Comment, IsPageWordComma) # {}

\* C9, amended: in a returned Paper, Pages is non-zero only if the text of
\* some comment element of its entry (not necessarily the one Comment holds)
\* has a token that is "pages" or "page" in any case between any number of
\* leading and trailing commas, right after a token that is a decimal number
\* below 2^64.
C9_PagesOnlyFromSomeComment ==
    ReturnedOK =>
        \A i \in 1..Len(ret.papers.elems) :
            ret.papers.elems[i].Pages # ZeroUint =>
                \E k \in 1..Len(commentLog[i]) :
                    \E nw \in PairsOf(commentLog[i][k], IsPageWordCommas) :
                        Below(Sub(commentLog[i][k], nw[1]), TwoTo64)

\* a returned Paper has a page count from an earlier comment element and a
\* Comment without any page count
C9_Witness ==
    /\ ReturnedOK
    /\ \E i \in 1..Len(ret.papers.elems) :
          /\ ret.papers.elems[i].Pages = <<5, 0, 0, 0>>
          /\ Len(commentLog[i]) = 2
          /\ PairsOf(ret.papers.elems[i].Comment, IsPageWordCommas) = {}

\* C10 as stated: for an entry with a single comment element whose text has
\* exactly one pair of a decimal number n and, right after it, "pages" or
\* "page" in any case, optionally followed by one comma, the returned Paper
\* has Pages = n; with no such pair it has Pages = 0.
C10_PagesOfSingleComment ==
    ReturnedOK =>
        \A i \in 1..Len(ret.papers.elems) :
            Len(commentLog[i]) = 1 =>
                LET c  == commentLog[i][1]
                    ps == PairsOf(c, IsPageWordComma)
                IN  /\ \A nw \in ps :
                          ps = {nw} =>
                            FormatUint(ret.papers.elems[i].Pages) = Canon(Sub(c, nw[1]))
                    /\ ps = {} => ret.papers.elems[i].Pages = ZeroUint

\* C10, amended: for an entry with a single comment element whose text has
\* exactly one pair of a decimal number n and, right after it, "pages" or
\* "page" in any case between any number of leading and trailing commas, the
\* returned Paper has Pages = n if n is below 2^32; with no such pair it has
\* Pages = 0.
C10_PagesOfSingleCommentTrimmed ==
    ReturnedOK =>
        \A i \in 1..Len(ret.papers.elems) :
            Len(commentLog[i]) = 1 =>
                LET c  == commentLog[i][1]
                    ps == PairsOf(c, IsPageWordCommas)
                IN  /\ \A nw \in ps :
                          (ps = {nw} /\ Below(Sub(c, nw[1]), TwoTo32)) =>
                            FormatUint(ret.papers.elems[i].Pages) = Canon(Sub(c, nw[1]))
                    /\ ps = {} => ret.papers.elems[i].Pages = ZeroUint

\* a returned Paper has the page count of a single comment whose word has a
\* leading comma
C10_Witness ==
    /\ ReturnedOK
    /\ \E i \in 1..Len(ret.papers.elems) :
          /\ commentLog[i] = << <<"5", " ", ",", "p", "a", "g", "e", "s">> >>
          /\ ret.papers.elems[i].Pages = <<5, 0, 0, 0>>

-----------------------------------------------------------------------------
(* Properties of the whitespace normalization (SpecNormalize).             *)

\* C11: the whitespace normalization is idempotent: applied to a text that
\* is already normalized, it yields the same text.
C11_NormalizeIdempotent ==
    [][pc = "normalized" => out' = out]_vars

\* a text with a line break inside and white space around was normalized twice
C11_Witness ==
    /\ pc = "renormalized"
    /\ str = <<"\r", "a", "\n", "a">>
    /\ Cur.Title = <<"a", " ", "a">>

-----------------------------------------------------------------------------
(* Properties of the parsers' use of the token stream (Spec).              *)

\* C12: the Record Parser returns only at the end tag of its own entry, so
\* that every token of an entry is read by its Record Parser: whenever the
\* Entry Extractor is about to read a token, no entry element is open.
C12_RecordEndsAtOwnEndTag ==
    pc = "top" => \A i \in 1..Len(stack) : stack[i] # Atom("entry")

\* the elements the Record Parser reads a value from
RecognizedPairs ==
    {Atom(l) : l \in {"id", "title", "summary", "updated", "published", "author", "category"}}
        \cup {ArXiv(l) : l \in {"doi", "journal_ref", "comment"}}

\* C13: a start tag the Record Parser reads whose namespace and local name
\* are not a recognized pair leaves every field of every Paper unchanged and
\* consumes no token beyond itself: the Record Parser reads the next token.
C13_UnrecognizedSkipped ==
    [][(pc = "paper" /\ token'.kind = "Start" /\ token'.name \notin RecognizedPairs) =>
          /\ out' = out
          /\ ret' = ret
          /\ pc' = "paper"
          /\ nread' = nread + 1
          /\ target' = target]_vars

\* a title element of the extension namespace was read in an entry whose
\* Title an earlier element had set
C13_Witness ==
    /\ pc = "paper"
    /\ token = [kind |-> "Start", name |-> ArXiv("title")]
    /\ Cur.Title = <<"a", " ", "b">>

-----------------------------------------------------------------------------
(* Properties of the records against the document read (SpecRecords).      *)

\* the number of elements open before the i-th token of the document
DepthAt(i) ==
    Cardinality({j \in 1..(i - 1) : doc[j].kind = "Start"})
        - Cardinality({j \in 1..(i - 1) : doc[j].kind = "End"})

\* the position of the end tag of the element whose start tag is the i-th
\* token, one past the last token if it has not been read
EndOf(i) ==
    LET ends == {j \in (i + 1)..Len(doc) :
                    doc[j].kind = "End" /\ DepthAt(j) = DepthAt(i) + 1}
    IN  IF ends = {} THEN Len(doc) + 1
        ELSE CHOOSE j \in ends : \A k \in ends : j <= k

\* the start tags of the child elements of the element started at i
ChildrenOf(i) ==
    {j \in (i + 1)..(EndOf(i) - 1) :
        doc[j].kind = "Start" /\ DepthAt(j) = DepthAt(i) + 1}

\* the numbers of S in increasing order
InOrder(S) ==
    [k \in 1..Cardinality(S) |-> CHOOSE x \in S : Cardinality({y \in S : y < x}) = k - 1]

\* the entries of the document: its entry elements outside every other entry
EntriesOf ==
    InOrder({i \in 1..Len(doc) :
        /\ doc[i].kind = "Start" /\ doc[i].name = Atom("entry")
        /\ ~\E j \in 1..(i - 1) :
              doc[j].kind = "Start" /\ doc[j].name = Atom("entry") /\ i < EndOf(j)})

\* the leaf value of the element started at i: its text, empty without one
LeafValueOf(i) ==
    IF i < Len(doc) /\ doc[i + 1].kind = "CharData" THEN doc[i + 1].text ELSE <<>>

\* the leaf value of the (last) child with that local name of the element
\* started at i, empty without such a child
ChildValue(i, local) ==
    LET cs == {j \in ChildrenOf(i) : doc[j].name.local = local}
    IN  IF cs = {} THEN <<>>
        ELSE LeafValueOf(CHOOSE j \in cs : \A k \in cs : k <= j)

\* the Authors the author elements of the entry started at e stand for
DocumentedAuthors(e) ==
    LET as == InOrder({j \in ChildrenOf(e) : doc[j].name = Atom("author")})
    IN  [k \in 1..Len(as) |->
            [Name |-> ChildValue(as[k], "name"),
             Affiliation |-> ChildValue(as[k], "affiliation")]]

\* the value of the term attribute of a start tag, as a sequence of at most
\* one value
TermValue(attr) ==
    LET hits == {i \in 1..Len(attr) : attr[i].name = XMLName("", "term")}
    IN  IF hits = {} THEN <<>>
        ELSE <<attr[CHOOSE i \in hits : \A j \in hits : i <= j].value>>

\* the Categories the category elements of the entry started at e stand for
DocumentedCategories(e) ==
    LET cs == InOrder({j \in ChildrenOf(e) : doc[j].name = Atom("category")})
    IN  Concat([k \in 1..Len(cs) |-> TermValue(doc[cs[k]].attr)])

\* the elements open inside the outermost open entry
InsideEntry ==
    LET es == {i \in 1..Len(stack) : stack[i] = Atom("entry")}
    IN  IF es = {} THEN {}
        ELSE {stack[i] : i \in ((CHOOSE e \in es : \A f \in es : e <= f) + 1)..Len(stack)}

\* C14: the Authors of a returned Paper are one Author per author element of
\* its entry, in document order, each with the leaf values of the name and
\* affiliation children of that element (empty when absent); and the Author
\* Parser returns at the end tag of its author element: whenever the Record
\* Parser is about to read a token, no author element is open in its entry.
C14_Authors ==
    /\ ReturnedOK =>
          \A k \in 1..Len(ret.papers.elems) :
              k <= Len(EntriesOf) =>
                  ret.papers.elems[k].Authors = DocumentedAuthors(EntriesOf[k])
    /\ pc = "paper" => Atom("author") \notin InsideEntry

\* C15: the Categories of a returned Paper are the term attribute values of
\* the category elements of its entry, in document order, duplicates kept;
\* and after a category start tag the parser reads exactly one further
\* token: an end tag, after which the Record Parser goes on with every Paper
\* as it was, or anything else, on which Search returns a decode error and
\* no records.
C15_Categories ==
    /\ [](ReturnedOK =>
            \A k \in 1..Len(ret.papers.elems) :
                k <= Len(EntriesOf) =>
                    ret.papers.elems[k].Categories = DocumentedCategories(EntriesOf[k]))
    /\ [][pc = "catEnd" =>
            \/ token'.kind = "End" /\ pc' = "paper" /\ out' = out /\ ret' = ret
            \/ /\ token'.kind # "End"
               /\ pc' = "done"
               /\ ret'.papers = NilSlice
               /\ ret'.err \in {TokenErr, ExpectedEndErr}]_vars

-----------------------------------------------------------------------------
(* Properties of the errors Search returns (Spec).                         *)

\* this step is Search returning the error of a failure other than an entry
\* titled "error": of the transport, of the scanner, of a leaf that does not
\* consist of at most one text and an end tag, or of a category start tag
\* that no end tag follows
OtherFailure ==
    \/ pc = "get" /\ pc' = "done"
    \/ token'.kind = "Err"
    \/ pc = "leaf1" /\ token'.kind \in {"Start", "Comment"}
    \/ pc = "leaf2" /\ token'.kind \in {"Start", "Comment", "CharData"}
    \/ pc = "catEnd" /\ token'.kind \in {"Start", "Comment", "CharData"}

\* C16: Search returns a SearchError only if an entry of the response has a
\* Title that is "error" in any case; the failure of the transport, of the
\* scanner, of the shape of a leaf and of the end tag after a category are
\* returned as errors that are no SearchError; and a response without such a
\* failure whose entries all have other titles returns no error.
C16_SearchErrorOnlyForErrorEntry ==
    /\ [](pc = "done" =>
            /\ ret.err.kind = "SearchError" =>
                  \E i \in 1..Len(out) : IsErrorWord(out[i].Title)
            /\ (\A i \in 1..Len(out) : ~IsErrorWord(out[i].Title)) =>
                  ret.err.kind \in {"nil", "transport", "token", "expectedEnd"})
    /\ [][/\ OtherFailure =>
                /\ pc' = "done"
                /\ ret'.err.kind \in {"transport", "token", "expectedEnd"}
          /\ (pc' = "done" /\ ~OtherFailure) =>
                \/ ret'.err = NoErr
                \/ /\ ret'.err.kind = "SearchError"
                   /\ IsErrorWord(out'[Len(out')].Title)]_vars

\* Search returned the error of a malformed leaf, not a SearchError, for an
\* entry whose Title is "error"
C16_Witness ==
    /\ pc = "done"
    /\ ret.err = ExpectedEndErr
    /\ out # <<>>
    /\ IsErrorWord(Cur.Title)

-----------------------------------------------------------------------------
(* Properties of Title and Summary (SpecTitles).                           *)

\* t has none of the characters of white but single spaces, and these only
\* between other characters
Collapsed(t, white) ==
    /\ \A k \in 1..Len(t) : t[k] \in white => t[k] = " "
    /\ \A k \in 1..(Len(t) - 1) : ~(t[k] = " " /\ t[k + 1] = " ")
    /\ t # <<>> => t[1] # " " /\ t[Len(t)] # " "

\* the characters the regular expression class \s stands for
ClassSpace == {" ", "\t", "\n", "\f", "\r"}

\* a step changes the Title (Summary) of a Paper only while a title (summary)
\* element is read, and a new Paper starts with both empty
SetOnlyByElement ==
    \A i \in 1..Len(out') :
        IF i > Len(out)
        THEN out'[i].Title = <<>> /\ out'[i].Summary = <<>>
        ELSE /\ out'[i].Title # out[i].Title => target = "Title"
             /\ out'[i].Summary # out[i].Summary => target = "Summary"

\* C17 as stated: Title and Summary of a returned Paper hold no white space
\* character but single spaces, none of them leading or trailing, and are
\* empty for an entry without a title (summary) element.
C17_NoWhiteSpace ==
    /\ [](ReturnedOK =>
            \A i \in 1..Len(ret.papers.elems) :
                /\ Collapsed(ret.papers.elems[i].Title, UnicodeSpace)
                /\ Collapsed(ret.papers.elems[i].Summary, UnicodeSpace))
    /\ [][SetOnlyByElement]_vars

\* C17, amended: Title and Summary of a returned Paper hold none of the
\* characters space, tab, newline, form feed and carriage return but single
\* spaces, none of them leading or trailing (any other white space, such as
\* a no-break space, stays as it is), and are empty for an entry without a
\* title (summary) element.
C17_NoClassSpace ==
    /\ [](ReturnedOK =>
            \A i \in 1..Len(ret.papers.elems) :
                /\ Collapsed(ret.papers.elems[i].Title, ClassSpace)
                /\ Collapsed(ret.papers.elems[i].Summary, ClassSpace))
    /\ [][SetOnlyByElement]_vars

\* a Paper was returned whose Title keeps a no-break space and whose Summary
\* was never set
C17_Witness ==
    /\ ReturnedOK
    /\ \E i \in 1..Len(ret.papers.elems) :
          /\ ret.papers.elems[i].Title = <<"a", "NBSP", " ", "b">>
          /\ ret.papers.elems[i].Summary = <<>>

-----------------------------------------------------------------------------
(* Properties of the reading of the token stream (SpecRecordsFair).        *)

\* the positions at which Search, parsePaper, parseAuthor and getInnerValue
\* read a token
Reading == pc \in {"top", "paper", "author", "catEnd", "leaf1", "leaf2"}

\* every step of the parsers reads exactly one token, the next one
OneTokenPerStep ==
    Reading => Len(doc') = Len(doc) + 1 /\ SubSeq(doc', 1, Len(doc)) = doc

\* this step reads the end of the input: io.EOF, or the syntax error of an
\* input that ends inside an open element
EndOfInput ==
    /\ Reading
    /\ doc'[Len(doc')] \in {EOFTok, TruncatedTok}

-----------------------------------------------------------------------------
(* Properties of the place of the elements read (Spec).                    *)

\* the n-th element open from the innermost one, none if fewer are open
Open(n) == IF Len(stack) >= n THEN stack[Len(stack) + 1 - n] ELSE NoName

\* this step changes a field of a Paper that exists already
FieldChanges == Len(out') = Len(out) /\ out' # out

\* C19: the fields of a Paper are set only from direct children of an entry
\* element, and those of an Author only from direct children of an author
\* element that is a direct child of an entry: a step changes a field only
\* if the start tag it reads (of an author or a category) has an entry as
\* its parent, or the leaf it reads has an entry (for Name and Affiliation:
\* such an author) as its parent.
C19_DirectChildrenOnly ==
    [][FieldChanges =>
          CASE pc = "paper" -> Open(1) = Atom("entry")
            [] pc \in {"leaf1", "leaf2"} /\ target \in {"Name", "Affiliation"} ->
                 Open(2) = Atom("author") /\ Open(3) = Atom("entry")
            [] pc \in {"leaf1", "leaf2"} -> Open(2) = Atom("entry")
            [] OTHER -> FALSE]_vars

====
